---------------------------- MODULE Spec2Model ----------------------------
(***************************************************************************)
(* Model of ios_simulator_mcp_server.py: a line-delimited JSON-RPC server  *)
(* (class IOSSimulatorMCPServer and the transport loop main()).            *)
(*                                                                         *)
(* Python values are tagged records (field j is the tag).  A dict is a     *)
(* record over a fixed key universe in which a missing key holds Absent.   *)
(* A str is a sequence of tokens; a token is a piece of text (Ch) or a     *)
(* whole JSON document (Doc), so that strip(), json.loads(), json.dumps()  *)
(* and the `in` substring test are computed, not assumed.                  *)
(* The Japanese status phrases of the source are rendered in ASCII; the    *)
(* comment next to each gives the original.                                *)
(***************************************************************************)
EXTENDS Integers, Sequences, FiniteSets, TLC

(* ------------------------------ bounds -------------------------------- *)
\* longest input script (lines before end-of-stream) over the alphabet LoopLines
MaxLines == 3
\* longest input script over the request catalogue CallLines
MaxCallLines == 1
\* longest input script of the termination check, over the alphabet LoopLines
MaxLiveLines == 2

(* --------------------------- Python values ---------------------------- *)
Absent == [j |-> "absent"]
JNull == [j |-> "null"]
JBool(b) == [j |-> "bool", v |-> b]
JNum(n) == [j |-> "num", v |-> n]
JStr(t) == [j |-> "str", v |-> t]
JList(s) == [j |-> "list", v |-> s]
JObj(f) == [j |-> "dict", v |-> f]

\* tokens of a str
Ch(c) == [t |-> "ch", c |-> c]
Doc(d, fmt) == [t |-> "doc", d |-> d, fmt |-> fmt]
WS == Ch(" ")
NL == Ch("\n")
\* the str holding the literal text c
W(c) == IF c = "" THEN <<>> ELSE <<Ch(c)>>
S(c) == JStr(W(c))

\* a dict over key universe K holding the entries of record p
Dict(K, p) == JObj([k \in K |-> IF k \in DOMAIN p THEN p[k] ELSE Absent])
HasKey(d, k) == k \in DOMAIN d.v /\ d.v[k] # Absent
Keys(d) == {k \in DOMAIN d.v : d.v[k] # Absent}

\* outcome of evaluating an expression: a value, or a raised exception
Ok(v) == [ok |-> TRUE, val |-> v]
Raise(e, m) == [ok |-> FALSE, exc |-> e, msg |-> m]

TypeName(x) ==
  CASE x.j = "null" -> "NoneType"
    [] x.j = "bool" -> "bool"
    [] x.j = "num" -> "int"
    [] x.j = "str" -> "str"
    [] x.j = "list" -> "list"
    [] OTHER -> "dict"

\* x.get(k, default)
PyGet(x, k, default) ==
  IF x.j = "dict"
  THEN Ok(IF HasKey(x, k) THEN x.v[k] ELSE default)
  ELSE Raise("AttributeError",
             W("'" \o TypeName(x) \o "' object has no attribute 'get'"))

\* x.get(k) written where x[k] is meant: a missing key yields None
PySubscript_Get(x, k) ==
  IF x.j = "dict"
  THEN Ok(IF HasKey(x, k) THEN x.v[k] ELSE JNull)
  ELSE Raise("AttributeError", W("'" \o TypeName(x) \o "' object has no attribute 'get'"))

\* x[k] for a str key k
PySubscript(x, k) ==
  IF x.j = "dict"
  THEN IF HasKey(x, k) THEN Ok(x.v[k]) ELSE Raise("KeyError", W("'" \o k \o "'"))
  ELSE Raise("TypeError", W("'" \o TypeName(x) \o "' object is not subscriptable by str"))

\* str(x) / f"{x}"
PyStr(x) ==
  CASE x.j = "null" -> W("None")
    [] x.j = "bool" -> W(IF x.v THEN "True" ELSE "False")
    [] x.j = "num" -> W(ToString(x.v))
    [] x.j = "str" -> x.v
    [] OTHER -> <<Doc(x, "repr")>>

\* truth value of x
Truthy(x) ==
  CASE x.j = "null" -> FALSE
    [] x.j = "bool" -> x.v
    [] x.j = "num" -> x.v # 0
    [] x.j = "str" -> x.v # <<>>
    [] x.j = "list" -> x.v # <<>>
    [] OTHER -> Keys(x) # {}

IsSpace(tok) == tok = WS \/ tok = NL

RECURSIVE LStrip(_)
LStrip(s) == IF s # <<>> /\ IsSpace(Head(s)) THEN LStrip(Tail(s)) ELSE s

RECURSIVE RStrip(_)
RStrip(s) ==
  IF s # <<>> /\ IsSpace(s[Len(s)]) THEN RStrip(SubSeq(s, 1, Len(s) - 1)) ELSE s

\* the line taken as it was read, newline included
Strip_None(s) == s

\* s.strip()
Strip(s) == RStrip(LStrip(s))

\* json.loads(s): leading and trailing whitespace is allowed around one document
JsonLoads(s) ==
  LET body == RStrip(LStrip(s))
  IN  IF Len(body) = 1 /\ body[1].t = "doc"
      THEN Ok(body[1].d)
      ELSE Raise("JSONDecodeError", W("Expecting value"))

\* json.dumps(x) and json.dumps(x, indent=2)
JsonDumps(x) == <<Doc(x, "compact")>>
JsonDumpsIndent2(x) == <<Doc(x, "indent2")>>

\* s.startswith(sub) written where sub in s is meant
Contains_StartsWith(s, sub) ==
  Len(sub) <= Len(s) /\ SubSeq(s, 1, Len(sub)) = sub

\* sub in s, for two strs
Contains(s, sub) ==
  \E i \in 1..(Len(s) + 1) :
     /\ i + Len(sub) - 1 <= Len(s)
     /\ SubSeq(s, i, i + Len(sub) - 1) = sub


(* --------------------- IOSSimulatorMCPServer -------------------------- *)
RequestKeys == {"method", "params", "id"}
ParamKeys == {"name", "arguments"}
ArgKeys == {"device_id", "app_path", "bundle_id", "project_path", "scheme"}
ResponseKeys == {"jsonrpc", "id", "result", "error"}
ErrorKeys == {"code", "message"}
ResultKeys == {"content", "error"}
BlockKeys == {"type", "text"}
OutcomeKeys == {"success", "returncode", "stdout", "stderr", "error"}
EmptyDict(K) == JObj([k \in K |-> Absent])

\* what subprocess.run does with a launchable argument list: the process
\* exits with a return code and captured output, or the 30 s timeout
\* expires, or the launch raises (missing executable, permission, ...)
Exited(rc, out, err) == [kind |-> "exit", returncode |-> rc, stdout |-> out, stderr |-> err]
TimedOut == [kind |-> "timeout", returncode |-> 0, stdout |-> <<>>, stderr |-> <<>>]
LaunchFailed == [kind |-> "exception", returncode |-> 0, stdout |-> <<>>, stderr |-> <<>>]

\* run_command that reports success whenever the process was launched
run_command_Launched(args, o) ==
  CASE o.kind = "exit" ->
         Dict(OutcomeKeys, [success |-> JBool(TRUE),
                            returncode |-> JNum(o.returncode),
                            stdout |-> JStr(o.stdout),
                            stderr |-> JStr(o.stderr)])
    [] o.kind = "timeout" ->
         Dict(OutcomeKeys, [success |-> JBool(FALSE),
                            error |-> S("Command timed out after 30 seconds")])
    [] OTHER ->
         Dict(OutcomeKeys, [success |-> JBool(FALSE),
                            error |-> S("launch error")])

\* run_command(args) when subprocess.run behaves as o
run_command(args, o) ==
  CASE o.kind = "exit" ->
         Dict(OutcomeKeys, [success |-> JBool(o.returncode = 0),
                            returncode |-> JNum(o.returncode),
                            stdout |-> JStr(o.stdout),
                            stderr |-> JStr(o.stderr)])
    [] o.kind = "timeout" ->
         Dict(OutcomeKeys, [success |-> JBool(FALSE),
                            error |-> S("Command timed out after 30 seconds")])
    [] OTHER ->
         Dict(OutcomeKeys, [success |-> JBool(FALSE),
                            error |-> S("launch error")])

\* {"content": [{"type": "text", "text": text}]}
ContentPayload(text) ==
  Dict(ResultKeys,
       [content |-> JList(<<Dict(BlockKeys, [type |-> S("text"), text |-> JStr(text)])>>)])

\* what a tool handler hands back: its return value or raised exception, and
\* the argument lists it passed to run_command, in order
Done(ret, cmds) == [ret |-> ret, cmds |-> cmds]

\* f"{prefix}{result['stderr']}" wrapped as the handler's payload
FailureStatus(prefix, result) ==
  LET e == PySubscript(result, "stderr")
  IN  IF e.ok THEN Ok(ContentPayload(W(prefix) \o PyStr(e.val))) ELSE e

list_devices(o) ==
  LET argv == <<S("xcrun"), S("simctl"), S("list"), S("devices"), S("available"), S("--json")>>
      result == run_command(argv, o)
      devices_data == JsonLoads(result.v["stdout"].v)
  IN  Done(IF Truthy(result.v["success"])
           THEN IF devices_data.ok
                THEN Ok(ContentPayload(JsonDumpsIndent2(devices_data.val)))
                \* "JSON解析エラー: "
                ELSE Ok(ContentPayload(W("JSON parse error: ") \o result.v["stdout"].v))
           \* "コマンド失敗: "
           ELSE FailureStatus("command failed: ", result),
           <<argv>>)

\* "起動成功" / "起動失敗: "
boot_device(device_id, o) ==
  LET argv == <<S("xcrun"), S("simctl"), S("boot"), device_id>>
      result == run_command(argv, o)
  IN  Done(IF Truthy(result.v["success"])
           THEN Ok(ContentPayload(W("boot succeeded")))
           ELSE FailureStatus("boot failed: ", result),
           <<argv>>)

\* "シャットダウン成功" / "シャットダウン失敗: "
shutdown_device(device_id, o) ==
  LET argv == <<S("xcrun"), S("simctl"), S("shutdown"), device_id>>
      result == run_command(argv, o)
  IN  Done(IF Truthy(result.v["success"])
           THEN Ok(ContentPayload(W("shutdown succeeded")))
           ELSE FailureStatus("shutdown failed: ", result),
           <<argv>>)

\* "インストール成功" / "インストール失敗: "
install_app(device_id, app_path, o) ==
  LET argv == <<S("xcrun"), S("simctl"), S("install"), device_id, app_path>>
      result == run_command(argv, o)
  IN  Done(IF Truthy(result.v["success"])
           THEN Ok(ContentPayload(W("install succeeded")))
           ELSE FailureStatus("install failed: ", result),
           <<argv>>)

\* "アプリ起動成功" / "アプリ起動失敗: "
launch_app(device_id, bundle_id, o) ==
  LET argv == <<S("xcrun"), S("simctl"), S("launch"), device_id, bundle_id>>
      result == run_command(argv, o)
  IN  Done(IF Truthy(result.v["success"])
           THEN Ok(ContentPayload(W("app launch succeeded")))
           ELSE FailureStatus("app launch failed: ", result),
           <<argv>>)

\* build_and_run that builds for the device it was given
build_and_run_OnDevice(project_path, scheme, device_id, o) ==
  LET argv == <<S("xcodebuild"), S("-project"), project_path, S("-scheme"), scheme,
                S("-destination"), JStr(W("id=") \o PyStr(device_id)), S("build")>>
      build_result == run_command(argv, o)
  IN  Done(IF ~Truthy(build_result.v["success"])
           THEN FailureStatus("build failed:\n", build_result)
           ELSE Ok(ContentPayload(W("build succeeded:\n") \o build_result.v["stdout"].v)),
           <<argv>>)

\* build_and_run that goes on to launch on the device after a successful build
build_and_run_ThenLaunch(project_path, scheme, device_id, o) ==
  LET argv == <<S("xcodebuild"), S("-project"), project_path, S("-scheme"), scheme,
                S("-destination"), S("generic/platform=iOS Simulator"), S("build")>>
      build_result == run_command(argv, o)
  IN  IF ~Truthy(build_result.v["success"])
      THEN Done(FailureStatus("build failed:\n", build_result), <<argv>>)
      ELSE Done(Ok(ContentPayload(W("build succeeded:\n") \o build_result.v["stdout"].v)),
                <<argv, <<S("xcrun"), S("simctl"), S("launch"), device_id>> >>)

\* "ビルド失敗:\n" / "ビルド成功:\n"
build_and_run(project_path, scheme, device_id, o) ==
  LET argv == <<S("xcodebuild"), S("-project"), project_path, S("-scheme"), scheme,
                S("-destination"), S("generic/platform=iOS Simulator"), S("build")>>
      build_result == run_command(argv, o)
  IN  Done(IF ~Truthy(build_result.v["success"])
           THEN FailureStatus("build failed:\n", build_result)
           ELSE Ok(ContentPayload(W("build succeeded:\n") \o build_result.v["stdout"].v)),
           <<argv>>)

\* "実行中" / "停止中" / "状態確認失敗: "
get_app_status(device_id, bundle_id, o) ==
  LET argv == <<S("xcrun"), S("simctl"), S("spawn"), device_id, S("launchctl"), S("list")>>
      result == run_command(argv, o)
  IN  Done(IF Truthy(result.v["success"])
           THEN IF bundle_id.j # "str"
                THEN Raise("TypeError", W("'in <string>' requires string as left operand"))
                ELSE Ok(ContentPayload(IF Contains(result.v["stdout"].v, bundle_id.v)
                                       THEN W("running") ELSE W("stopped")))
           ELSE FailureStatus("status check failed: ", result),
           <<argv>>)


\* an unknown tool reported by raising, like a missing argument
UnknownTool_Raise(name) ==
  Done(Raise("ValueError", W("Unknown tool: ") \o PyStr(name)), <<>>)

\* the else branch of call_tool: return {"error": f"Unknown tool: {name}"}
UnknownTool(name) ==
  Done(Ok(Dict(ResultKeys, [error |-> JStr(W("Unknown tool: ") \o PyStr(name))])), <<>>)

\* call_tool(params)
call_tool(params, o) ==
  LET name == PyGet(params, "name", JNull)
      arguments == PyGet(params, "arguments", EmptyDict(ArgKeys))
      Arg(k) == PySubscript(arguments.val, k)
      Raised(e) == Done(e, <<>>)
  IN  IF ~name.ok THEN Raised(name)
      ELSE IF name.val = S("list_devices") THEN list_devices(o)
      ELSE IF name.val = S("boot_device") THEN
        IF ~Arg("device_id").ok THEN Raised(Arg("device_id"))
        ELSE boot_device(Arg("device_id").val, o)
      ELSE IF name.val = S("shutdown_device") THEN
        IF ~Arg("device_id").ok THEN Raised(Arg("device_id"))
        ELSE shutdown_device(Arg("device_id").val, o)
      ELSE IF name.val = S("install_app") THEN
        IF ~Arg("device_id").ok THEN Raised(Arg("device_id"))
        ELSE IF ~Arg("app_path").ok THEN Raised(Arg("app_path"))
        ELSE install_app(Arg("device_id").val, Arg("app_path").val, o)
      ELSE IF name.val = S("launch_app") THEN
        IF ~Arg("device_id").ok THEN Raised(Arg("device_id"))
        ELSE IF ~Arg("bundle_id").ok THEN Raised(Arg("bundle_id"))
        ELSE launch_app(Arg("device_id").val, Arg("bundle_id").val, o)
      ELSE IF name.val = S("build_and_run") THEN
        IF ~Arg("project_path").ok THEN Raised(Arg("project_path"))
        ELSE IF ~Arg("scheme").ok THEN Raised(Arg("scheme"))
        ELSE IF ~PyGet(arguments.val, "device_id", S("booted")).ok
             THEN Raised(PyGet(arguments.val, "device_id", S("booted")))
        ELSE build_and_run(Arg("project_path").val, Arg("scheme").val,
                           PyGet(arguments.val, "device_id", S("booted")).val, o)
      ELSE IF name.val = S("get_app_status") THEN
        IF ~Arg("device_id").ok THEN Raised(Arg("device_id"))
        ELSE IF ~Arg("bundle_id").ok THEN Raised(Arg("bundle_id"))
        ELSE get_app_status(Arg("device_id").val, Arg("bundle_id").val, o)
      ELSE UnknownTool(name.val)


ToolKeys == {"name", "description", "inputSchema"}
SchemaKeys == {"type", "properties", "required"}
PropertyKeys == {"type", "description", "default"}
StringProp(description) ==
  Dict(PropertyKeys, [type |-> S("string"), description |-> S(description)])
\* a registry entry whose schema lists no required field
Tool_NothingRequired(name, description, properties, required) ==
  Dict(ToolKeys,
       [name |-> S(name), description |-> S(description),
        inputSchema |-> Dict(SchemaKeys, [type |-> S("object"),
                                          properties |-> Dict(ArgKeys, properties),
                                          required |-> JList(<<>>)])])

\* one entry of the tools list: {"name", "description", "inputSchema"}
Tool(name, description, properties, required) ==
  Dict(ToolKeys,
       [name |-> S(name), description |-> S(description),
        inputSchema |-> Dict(SchemaKeys, [type |-> S("object"),
                                          properties |-> Dict(ArgKeys, properties),
                                          required |-> JList(required)])])

\* list_tools(); the descriptions are English renderings of the source's
list_tools ==
  Dict({"tools"}, [tools |-> JList(<<
    Tool("list_devices", "list the available iOS simulator devices",
         <<>>, <<>>),
    Tool("boot_device", "boot the given device",
         [device_id |-> StringProp("device UDID or device name")],
         <<S("device_id")>>),
    Tool("shutdown_device", "shut the given device down",
         [device_id |-> StringProp("device UDID or 'booted'")],
         <<S("device_id")>>),
    Tool("install_app", "install an app on the simulator",
         [device_id |-> StringProp("device UDID or 'booted'"),
          app_path |-> StringProp("path of the .app file")],
         <<S("device_id"), S("app_path")>>),
    Tool("launch_app", "launch an app",
         [device_id |-> StringProp("device UDID or 'booted'"),
          bundle_id |-> StringProp("bundle ID of the app")],
         <<S("device_id"), S("bundle_id")>>),
    Tool("build_and_run", "build an Xcode project and run it on the simulator",
         [project_path |-> StringProp("path of the Xcode project"),
          scheme |-> StringProp("build scheme"),
          device_id |-> Dict(PropertyKeys, [type |-> S("string"),
                                            description |-> S("device UDID or 'booted'"),
                                            default |-> S("booted")])],
         <<S("project_path"), S("scheme")>>),
    Tool("get_app_status", "check whether an app is running",
         [device_id |-> StringProp("device UDID or 'booted'"),
          bundle_id |-> StringProp("bundle ID of the app")],
         <<S("device_id"), S("bundle_id")>>)
  >>)])

\* initialize(params)
initialize(self, params) ==
  Dict({"protocolVersion", "capabilities", "serverInfo"},
       [protocolVersion |-> S("2024-11-05"),
        capabilities |-> Dict({"tools"}, [tools |-> EmptyDict({})]),
        serverInfo |-> Dict({"name", "version"},
                            [name |-> S("ios-simulator-mcp"), version |-> self.version])])

\* an error envelope that drops the request's id
ErrorResponse_NoEcho(request_id, code, message) ==
  Dict(ResponseKeys,
       [jsonrpc |-> S("2.0"), id |-> JNull,
        error |-> Dict(ErrorKeys, [code |-> JNum(code), message |-> JStr(message)])])

\* an error envelope that reports an unknown method as -32600 (invalid request)
ErrorResponse_InvalidRequest(request_id, code, message) ==
  Dict(ResponseKeys,
       [jsonrpc |-> S("2.0"), id |-> request_id,
        error |-> Dict(ErrorKeys, [code |-> JNum(IF code = -32601 THEN -32600 ELSE code),
                                   message |-> JStr(message)])])

\* the three error envelopes of the source: {"jsonrpc", "id", "error": {"code", "message"}}
ErrorResponse(request_id, code, message) ==
  Dict(ResponseKeys,
       [jsonrpc |-> S("2.0"), id |-> request_id,
        error |-> Dict(ErrorKeys, [code |-> JNum(code), message |-> JStr(message)])])

\* a result envelope that also carries "error": None
ResultResponse_WithError(request_id, result) ==
  Dict(ResponseKeys,
       [jsonrpc |-> S("2.0"), id |-> request_id, result |-> result, error |-> JNull])

\* {"jsonrpc": "2.0", "id": request_id, "result": result}
ResultResponse(request_id, result) ==
  Dict(ResponseKeys, [jsonrpc |-> S("2.0"), id |-> request_id, result |-> result])

\* handle_jsonrpc_request(request) when the command it runs, if any, behaves
\* as o.  The three .get calls precede the try block, so a request that is
\* not a dict makes the call itself raise.
handle_jsonrpc_request(self, request, o) ==
  LET method == PyGet(request, "method", JNull)
      params == PyGet(request, "params", EmptyDict(ParamKeys))
      request_id == PyGet(request, "id", JNull)
      called == call_tool(params.val, o)
      Except(e, cmds) == Done(Ok(ErrorResponse(request_id.val, -32603, e.msg)), cmds)
  IN  IF ~method.ok THEN Done(method, <<>>)
      ELSE IF method.val = S("initialize")
        THEN Done(Ok(ResultResponse(request_id.val, initialize(self, params.val))), <<>>)
      ELSE IF method.val = S("tools/list")
        THEN Done(Ok(ResultResponse(request_id.val, list_tools)), <<>>)
      ELSE IF method.val = S("tools/call")
        THEN IF called.ret.ok
             THEN Done(Ok(ResultResponse(request_id.val, called.ret.val)), called.cmds)
             ELSE Except(called.ret, called.cmds)
      ELSE Done(Ok(ErrorResponse(request_id.val, -32601,
                                 W("Method not found: ") \o PyStr(method.val))),
                <<>>)


(* ------------------------------ inputs -------------------------------- *)
Request(method, params, id) ==
  Dict(RequestKeys, [method |-> method, params |-> params, id |-> id])
Params(name, arguments) ==
  Dict(ParamKeys, [name |-> name, arguments |-> arguments])
ToolCall(name, arguments, id) ==
  Request(S("tools/call"), Params(S(name), arguments), id)
\* the arguments dict holding a sample value under each key of K
SampleValue ==
  [device_id |-> S("X"), app_path |-> S("/a.app"), bundle_id |-> S("com.a"),
   project_path |-> S("P.xcodeproj"), scheme |-> S("App")]
Arguments(K) == JObj([k \in ArgKeys |-> IF k \in K THEN SampleValue[k] ELSE Absent])
\* a line as the client writes it: one JSON document and a newline
Line(doc) == <<Doc(doc, "raw"), NL>>

BlankLine == <<NL>>
MalformedLine == <<Ch("{oops"), NL>>
ArrayLine == Line(JList(<<>>))

\* the alphabet of the loop specification: one line of each class
LoopLines ==
  { BlankLine, MalformedLine, ArrayLine,
    Line(Request(S("initialize"), Absent, S("a"))),
    Line(Request(S("tools/list"), Absent, JNum(4))),
    Line(Request(S("foo"), Absent, Absent)),
    Line(ToolCall("boot_device", Arguments({"device_id"}), JNum(1))),
    Line(ToolCall("boot_device", Arguments({}), JNum(2))),
    Line(ToolCall("no_such_tool", Arguments({}), JNum(3))) }

\* key sets tried as the arguments of each tool: every subset of the keys its
\* handler reads
ToolArgKeys ==
  [list_devices |-> {},
   boot_device |-> {"device_id"},
   shutdown_device |-> {"device_id"},
   install_app |-> {"device_id", "app_path"},
   launch_app |-> {"device_id", "bundle_id"},
   build_and_run |-> {"project_path", "scheme", "device_id"},
   get_app_status |-> {"device_id", "bundle_id"}]
ToolNames == DOMAIN ToolArgKeys

\* the request catalogue: blank and undecodable lines, documents that are not
\* objects, every method with several ids and params, and tools/call with
\* every tool under every subset of its argument keys
CallLines ==
  { BlankLine, <<WS, NL>>, <<WS>>, MalformedLine, ArrayLine,
    <<Doc(Request(S("initialize"), Absent, JNum(1)), "raw"), WS,
      Doc(Request(S("initialize"), Absent, JNum(1)), "raw"), NL>>,
    <<WS, Doc(Request(S("tools/list"), Absent, JNum(1)), "raw"), WS, NL>>,
    <<Doc(Request(S("tools/list"), Absent, JNum(1)), "raw")>>,
    Line(JNum(7)), Line(S("initialize")), Line(JNull) }
  \cup {Line(Request(m, p, id)) :
          m \in {Absent, JNull, S("initialize"), S("tools/list"), S("foo")},
          p \in {Absent, JList(<<>>)},
          id \in {Absent, JNum(1), S("x")}}
  \cup {Line(Request(S("tools/call"), p, JNum(1))) :
          p \in {Absent, JNull, JList(<<>>),
                 Params(Absent, Absent), Params(JNum(3), Absent),
                 Params(S("no_such_tool"), Arguments({"device_id"})),
                 Params(S("boot_device"), Absent),
                 Params(S("boot_device"), JNull),
                 Params(S("boot_device"), JList(<<>>)),
                 Params(S("boot_device"), Dict(ArgKeys, [device_id |-> JNum(5)])),
                 Params(S("boot_device"), Dict(ArgKeys, [device_id |-> JNull])),
                 Params(S("build_and_run"),
                        Dict(ArgKeys, [project_path |-> S("P.xcodeproj"), scheme |-> S("App"),
                                       device_id |-> S("booted")])),
                 Params(S("get_app_status"),
                        Dict(ArgKeys, [device_id |-> S("X"), bundle_id |-> JNum(5)])),
                 Params(S("get_app_status"),
                        Dict(ArgKeys, [device_id |-> S("X"), bundle_id |-> S("")]))}}
  \cup {Line(ToolCall("boot_device", Arguments({"device_id"}), id)) :
          id \in {Absent, JNull, S("x"), JNum(0)}}
  \cup UNION {{Line(ToolCall(t, Arguments(K), JNum(2))) : K \in SUBSET ToolArgKeys[t]} :
                t \in ToolNames}

\* every input script of at most n lines over alphabet L
Scripts(L, n) == UNION {[1..k -> L] : k \in 0..n}

\* what the simulator toolchain can answer
Stdouts ==
  { <<>>, <<Doc(EmptyDict({"devices"}), "raw"), NL>>, <<Ch("com.a"), NL>>,
    <<Ch("123"), WS, Ch("0"), WS, Ch("com.a"), NL, Ch("-"), WS, Ch("0"), WS, Ch("com.b"), NL>> }
Stderrs == { <<>>, W("No devices are booted.") }
Outcomes ==
  {Exited(0, out, <<>>) : out \in Stdouts}
    \cup {Exited(1, <<>>, err) : err \in Stderrs}
    \cup {TimedOut, LaunchFailed}
\* what subprocess.run(args, capture_output=True, text=True, timeout=30) can
\* do: an argument that is not a str makes it raise TypeError before anything
\* is launched
SubprocessRun(args) ==
  IF \E i \in 1..Len(args) : args[i].j # "str" THEN {LaunchFailed} ELSE Outcomes

(* ------------------------------- main --------------------------------- *)
VARIABLES
  stdin,      \* the lines the client sends before closing the stream
  pos,        \* index in stdin of the next line readline returns
  pc,         \* "read": blocked in readline; "exec": blocked in subprocess.run;
              \* "stopped": the loop has been left
  request,    \* the decoded request being handled while pc = "exec"
  stdout,     \* the lines printed so far
  cmdlog,     \* the run_command invocations so far: input line, argv, outcome
  server      \* the IOSSimulatorMCPServer instance

vars == <<stdin, pos, pc, request, stdout, cmdlog, server>>

NoRequest == JNull
line == stdin[pos]
stripped == Strip(line)
decoded == JsonLoads(stripped)
\* response = server.handle_jsonrpc_request(request), the request being the
\* value json.loads returned (decoded once, then passed on)
handled(o) ==
  CHOOSE h \in {handle_jsonrpc_request(server, req, o) : req \in {decoded.val}} : TRUE
\* the argument lists the request on the current line passes to run_command
Commands == handled(TimedOut).cmds

WriteLine(text) == stdout' = Append(stdout, text \o <<NL>>)

InitServer == [version |-> S("1.0.0"), request_id |-> JNum(0)]

InitWith(scripts) ==
  /\ stdin \in scripts
  /\ pos = 1
  /\ pc = "read"
  /\ request = NoRequest
  /\ stdout = <<>>
  /\ cmdlog = <<>>
  /\ server = InitServer

Init == InitWith(Scripts(LoopLines, MaxLines) \cup Scripts(CallLines, MaxCallLines))

\* readline returns "" at end-of-stream: break
EndOfStream ==
  /\ pc = "read" /\ pos > Len(stdin)
  /\ pc' = "stopped"
  /\ UNCHANGED <<stdin, pos, request, stdout, cmdlog, server>>

\* the line is empty after strip(): continue
SkipBlank ==
  /\ pc = "read" /\ pos <= Len(stdin)
  /\ stripped = <<>>
  /\ pos' = pos + 1
  /\ UNCHANGED <<stdin, pc, request, stdout, cmdlog, server>>

\* a parse error that prints its response and then leaves the loop
ParseError_Break ==
  /\ pc = "read" /\ pos <= Len(stdin)
  /\ stripped # <<>> /\ ~decoded.ok
  /\ WriteLine(JsonDumps(ErrorResponse(JNull, -32700, W("Parse error"))))
  /\ pos' = pos + 1
  /\ pc' = "stopped"
  /\ UNCHANGED <<stdin, request, cmdlog, server>>

\* json.loads raises JSONDecodeError: print the -32700 response
ParseError ==
  /\ pc = "read" /\ pos <= Len(stdin)
  /\ stripped # <<>> /\ ~decoded.ok
  /\ WriteLine(JsonDumps(ErrorResponse(JNull, -32700, W("Parse error"))))
  /\ pos' = pos + 1
  /\ UNCHANGED <<stdin, pc, request, cmdlog, server>>

\* a handler fault that prints its response and then leaves the loop
HandlerFault_Break ==
  /\ pc = "read" /\ pos <= Len(stdin)
  /\ stripped # <<>> /\ decoded.ok /\ ~handled(TimedOut).ret.ok
  /\ WriteLine(JsonDumps(ErrorResponse(JNull, -32603, handled(TimedOut).ret.msg)))
  /\ pos' = pos + 1
  /\ pc' = "stopped"
  /\ UNCHANGED <<stdin, request, cmdlog, server>>

\* handle_jsonrpc_request raises: the outer except prints the -32603 response
HandlerFault ==
  /\ pc = "read" /\ pos <= Len(stdin)
  /\ stripped # <<>> /\ decoded.ok /\ ~handled(TimedOut).ret.ok
  /\ WriteLine(JsonDumps(ErrorResponse(JNull, -32603, handled(TimedOut).ret.msg)))
  /\ pos' = pos + 1
  /\ UNCHANGED <<stdin, pc, request, cmdlog, server>>

\* an answer that also counts the request in the server's request_id
Answer_Counting ==
  /\ pc = "read" /\ pos <= Len(stdin)
  /\ stripped # <<>> /\ decoded.ok /\ handled(TimedOut).ret.ok
  /\ Commands = <<>>
  /\ WriteLine(JsonDumps(handled(TimedOut).ret.val))
  /\ pos' = pos + 1
  /\ server' = [server EXCEPT !.request_id = JNum(@.v + 1)]
  /\ UNCHANGED <<stdin, pc, request, cmdlog>>

\* a request handled without any external command: print its response
Answer ==
  /\ pc = "read" /\ pos <= Len(stdin)
  /\ stripped # <<>> /\ decoded.ok /\ handled(TimedOut).ret.ok
  /\ Commands = <<>>
  /\ WriteLine(JsonDumps(handled(TimedOut).ret.val))
  /\ pos' = pos + 1
  /\ UNCHANGED <<stdin, pc, request, cmdlog, server>>

\* a command started in the background while the loop goes on reading
StartCommand_Detached ==
  /\ pc = "read" /\ pos <= Len(stdin)
  /\ stripped # <<>> /\ decoded.ok /\ handled(TimedOut).ret.ok
  /\ Commands # <<>>
  /\ request' = decoded.val
  /\ pos' = pos + 1
  /\ UNCHANGED <<stdin, pc, stdout, cmdlog, server>>

\* a request whose tool handler calls run_command: the loop blocks in
\* subprocess.run
StartCommand ==
  /\ pc = "read" /\ pos <= Len(stdin)
  /\ stripped # <<>> /\ decoded.ok /\ handled(TimedOut).ret.ok
  /\ Commands # <<>>
  /\ pc' = "exec"
  /\ request' = decoded.val
  /\ pos' = pos + 1
  /\ UNCHANGED <<stdin, stdout, cmdlog, server>>

\* a timeout that escapes run_command and ends the loop without a response
CommandReturns_Abort ==
  /\ pc = "exec"
  /\ \E o \in SubprocessRun(handle_jsonrpc_request(server, request, TimedOut).cmds[1]) :
       LET h == handle_jsonrpc_request(server, request, o)
       IN  /\ IF o.kind = "timeout"
              THEN stdout' = stdout /\ pc' = "stopped"
              ELSE WriteLine(JsonDumps(h.ret.val)) /\ pc' = "read"
           /\ cmdlog' = cmdlog \o [i \in 1..Len(h.cmds) |->
                                     [lineno |-> pos - 1, argv |-> h.cmds[i], outcome |-> o]]
  /\ request' = NoRequest
  /\ UNCHANGED <<stdin, pos, server>>

\* subprocess.run returns or raises; the handler finishes and the response
\* is printed
CommandReturns ==
  /\ pc = "exec"
  /\ \E o \in SubprocessRun(handle_jsonrpc_request(server, request, TimedOut).cmds[1]) :
       LET h == handle_jsonrpc_request(server, request, o)
       IN  /\ WriteLine(JsonDumps(h.ret.val))
           /\ cmdlog' = cmdlog \o [i \in 1..Len(h.cmds) |->
                                     [lineno |-> pos - 1, argv |-> h.cmds[i], outcome |-> o]]
  /\ pc' = "read"
  /\ request' = NoRequest
  /\ UNCHANGED <<stdin, pos, server>>

Next ==
  \/ EndOfStream
  \/ SkipBlank
  \/ ParseError
  \/ HandlerFault
  \/ Answer
  \/ StartCommand
  \/ CommandReturns

Spec == Init /\ [][Next]_vars

\* the loop with a finite input whose every command returns: readline,
\* subprocess.run (bounded by its 30 s timeout) and print all return, so a
\* step that can be taken is eventually taken
LiveInit == InitWith(Scripts(LoopLines, MaxLiveLines))
FairSpec == LiveInit /\ [][Next]_vars /\ WF_vars(Next)


(* ------------------- vocabulary of the properties --------------------- *)
Range(f) == {f[i] : i \in DOMAIN f}
\* the line holds nothing but whitespace
AllSpace(l) == \A i \in 1..Len(l) : l[i] = WS \/ l[i] = NL
\* the last input line whose handling is complete
Handled == IF pc = "exec" THEN pos - 2 ELSE pos - 1
\* position in stdout of the response to input line i
OutIndex(i) == Cardinality({n \in 1..i : ~AllSpace(stdin[n])})
\* d[k], or Absent when d is not a dict or lacks k
Field(d, k) == IF d.j = "dict" /\ k \in DOMAIN d.v THEN d.v[k] ELSE Absent
\* d is a dict that has key k
Has(d, k) == Field(d, k) # Absent
\* the JSON document on input line i, Absent when the line is not one document
Sent(i) ==
  LET toks == SelectSeq(stdin[i], LAMBDA tok : ~(tok = WS \/ tok = NL))
  IN  IF Len(toks) = 1 /\ toks[1].t = "doc" THEN toks[1].d ELSE Absent
\* the response document printed for input line i, Absent when there is none
Written(i) ==
  LET k == OutIndex(i)
  IN  IF /\ ~AllSpace(stdin[i]) /\ k <= Len(stdout)
         /\ Len(stdout[k]) = 2 /\ stdout[k][1].t = "doc" /\ stdout[k][2] = NL
      THEN stdout[k][1].d ELSE Absent
\* the id the response to line i must carry
ExpectedId(i) == IF Has(Sent(i), "id") THEN Field(Sent(i), "id") ELSE JNull
IsResult(r) == Has(r, "result") /\ ~Has(r, "error")
IsError(r) == Has(r, "error") /\ ~Has(r, "result")
ErrorCode(r) == Field(Field(r, "error"), "code")
ErrorMessage(r) == Field(Field(r, "error"), "message")
Method(i) == Field(Sent(i), "method")
KnownMethods == {S("initialize"), S("tools/list"), S("tools/call")}
\* the params, name and arguments that call_tool sees for the request on line i
ParamsOf(i) == IF Has(Sent(i), "params") THEN Field(Sent(i), "params") ELSE EmptyDict(ParamKeys)
NameOf(i) == Field(ParamsOf(i), "name")
ArgumentsOf(i) ==
  IF Has(ParamsOf(i), "arguments") THEN Field(ParamsOf(i), "arguments") ELSE EmptyDict(ArgKeys)
IsToolCall(i) == Sent(i).j = "dict" /\ Method(i) = S("tools/call") /\ ParamsOf(i).j = "dict"
\* the registry entry of a tool and the keys it lists as required
Registry == Range(list_tools.v["tools"].v)
RegistryNames == {tool.v["name"] : tool \in Registry}
RequiredKeys(name) ==
  LET tool == CHOOSE x \in Registry : x.v["name"] = name
  IN  {r.v[1].c : r \in Range(tool.v["inputSchema"].v["required"].v)}
HasRequired(i) ==
  \A f \in RequiredKeys(NameOf(i)) : Has(ArgumentsOf(i), f)
\* the run_command invocations made for input line i
RunsFor(i) == {n \in 1..Len(cmdlog) : cmdlog[n].lineno = i}

(* ----------------------------- properties ----------------------------- *)

\* C1: the output holds exactly one response per input line that is not
\* empty after trimming, in the order of those lines (the k-th response
\* carries the id of the k-th such line), and nothing for a blank line; the
\* loop is left only when every line has been read.
C1_OneResponsePerLine ==
  /\ Len(stdout) = OutIndex(Handled)
  /\ \A i \in 1..Handled :
       ~AllSpace(stdin[i]) => Written(i) # Absent /\ Field(Written(i), "id") = ExpectedId(i)
  /\ pc = "stopped" => Handled = Len(stdin)

C1_Witness ==
  /\ pc = "stopped" /\ Len(stdin) = 3
  /\ AllSpace(stdin[2])
  /\ Len(stdout) = 2
  /\ Field(Written(1), "id") = JNum(1)
  /\ Field(Written(3), "id") = S("a")

\* C2: the response handle_jsonrpc_request returns for a request object
\* carries the request's id, null when the request has no id, whether it is
\* a result, a -32601 error or a -32603 error.
C2_IdEchoed ==
  \A i \in 1..Handled :
    Sent(i).j = "dict" =>
      /\ Written(i).j = "dict"
      /\ Field(Written(i), "id") = (IF Has(Sent(i), "id") THEN Sent(i).v["id"] ELSE JNull)
      /\ \/ IsResult(Written(i))
         \/ ErrorCode(Written(i)) \in {JNum(-32601), JNum(-32603)}

C2_Witness ==
  \E i \in 1..Handled :
    /\ Sent(i).j = "dict" /\ Field(Sent(i), "id") = S("x")
    /\ ErrorCode(Written(i)) = JNum(-32603)
    /\ Field(Written(i), "id") = S("x")

\* C3: every line the server prints is one JSON object with jsonrpc = "2.0",
\* an id field, and exactly one of the fields result and error.
C3_ResponseShape ==
  \A k \in 1..Len(stdout) :
    /\ Len(stdout[k]) = 2 /\ stdout[k][1].t = "doc" /\ stdout[k][2] = NL
    /\ LET r == stdout[k][1].d
       IN  /\ r.j = "dict"
           /\ Field(r, "jsonrpc") = S("2.0")
           /\ Has(r, "id")
           /\ Has(r, "result") # Has(r, "error")

C3_Witness ==
  /\ Len(stdout) = 3
  /\ IsResult(stdout[1][1].d) /\ Field(stdout[1][1].d, "id") = JNum(1)
  /\ IsError(stdout[2][1].d) /\ Field(stdout[2][1].d, "id") = JNull
  /\ IsError(stdout[3][1].d) /\ Field(stdout[3][1].d, "id") = JNum(2)

\* C4: an undecodable line is answered with code -32700; a request object
\* whose method is not initialize, tools/list or tools/call with code -32601
\* and the message "Method not found: <method>"; an error answering one of
\* the three known methods has code -32603; no other code is ever printed.
C4_ErrorCodes ==
  /\ \A i \in 1..Handled :
       /\ (~AllSpace(stdin[i]) /\ Sent(i) = Absent) => ErrorCode(Written(i)) = JNum(-32700)
       /\ (Sent(i).j = "dict" /\ Method(i) \notin KnownMethods) =>
            /\ ErrorCode(Written(i)) = JNum(-32601)
            /\ ErrorMessage(Written(i)) =
                 JStr(W("Method not found: ")
                        \o (IF Has(Sent(i), "method") THEN PyStr(Method(i)) ELSE W("None")))
       /\ (Sent(i).j = "dict" /\ Method(i) \in KnownMethods /\ Has(Written(i), "error")) =>
            ErrorCode(Written(i)) = JNum(-32603)
  /\ \A k \in 1..Len(stdout) :
       Has(stdout[k][1].d, "error") =>
         ErrorCode(stdout[k][1].d) \in {JNum(-32700), JNum(-32601), JNum(-32603)}

C4_Witness ==
  /\ Handled = 3
  /\ Sent(1) = Absent /\ ErrorCode(Written(1)) = JNum(-32700)
  /\ Method(2) = S("foo") /\ ErrorCode(Written(2)) = JNum(-32601)
  /\ Method(3) = S("tools/call") /\ ErrorCode(Written(3)) = JNum(-32603)

\* C5: a tools/call of a registry tool whose arguments lack a field the
\* registry lists as required is answered with error -32603 under the
\* request's id and runs no command; when every required field is present
\* the tool's command is run.
C5_RequiredArguments ==
  \A i \in 1..Handled :
    (IsToolCall(i) /\ NameOf(i) \in RegistryNames) =>
      IF HasRequired(i)
      THEN RunsFor(i) # {}
      ELSE /\ RunsFor(i) = {}
           /\ IsError(Written(i))
           /\ ErrorCode(Written(i)) = JNum(-32603)
           /\ Field(Written(i), "id") = ExpectedId(i)

C5_Witness ==
  \E i, n \in 1..Handled :
    /\ IsToolCall(i) /\ NameOf(i) = S("boot_device") /\ ~HasRequired(i)
    /\ ErrorCode(Written(i)) = JNum(-32603) /\ RunsFor(i) = {}
    /\ IsToolCall(n) /\ NameOf(n) = S("boot_device") /\ HasRequired(n)
    /\ RunsFor(n) # {}


\* the text of the single content block of a result, Absent when the result
\* is not of that shape
Content(r) == Field(Field(r, "result"), "content")
IsOneTextBlock(c) ==
  /\ c.j = "list" /\ Len(c.v) = 1
  /\ Field(c.v[1], "type") = S("text")
  /\ Field(c.v[1], "text").j = "str"
  /\ Keys(c.v[1]) = {"type", "text"}
StatusText(r) == IF IsOneTextBlock(Content(r)) THEN Field(Content(r).v[1], "text") ELSE Absent
IsPrefix(p, t) == Len(p) <= Len(t) /\ SubSeq(t, 1, Len(p)) = p
\* the outcome is an external-process fault: the program could not be
\* launched, or it exited non-zero
ProcessFault(o) == o.kind = "exception" \/ (o.kind = "exit" /\ o.returncode # 0)
\* the status text the tool called on line i returns when its command ran and
\* exited non-zero with nothing on stderr: the tool's failure phrase
FailurePhrase(i) ==
  StatusText(handle_jsonrpc_request(InitServer, Sent(i), Exited(1, <<>>, <<>>)).ret.val).v

\* C6: a command that could not be launched or exited non-zero is reported
\* as a status string in the content of a result, never as an error response.
C6_ProcessFaultInResult ==
  \A n \in 1..Len(cmdlog) :
    ProcessFault(cmdlog[n].outcome) =>
      LET r == Written(cmdlog[n].lineno)
      IN  IsResult(r) /\ StatusText(r) # Absent

\* C7: a command that exceeds the time ceiling is answered like one that
\* ran and failed: a result under the request's id whose content starts with
\* the tool's failure phrase.
C7_TimeoutLikeFailure ==
  \A n \in 1..Len(cmdlog) :
    cmdlog[n].outcome.kind = "timeout" =>
      LET i == cmdlog[n].lineno
          r == Written(i)
      IN  /\ IsResult(r)
          /\ Field(r, "id") = ExpectedId(i)
          /\ StatusText(r) # Absent
          /\ IsPrefix(FailurePhrase(i), StatusText(r).v)

\* C8: a tools/call whose params name no registry tool (the name may be
\* missing) is answered with the result {"error": "Unknown tool: <name>"},
\* without an error field and without running a command; a request whose
\* method is unknown is answered with an error field.
C8_UnknownToolIsResult ==
  \A i \in 1..Handled :
    /\ (IsToolCall(i) /\ NameOf(i) \notin RegistryNames) =>
         /\ IsResult(Written(i))
         /\ Field(Written(i), "id") = ExpectedId(i)
         /\ Keys(Field(Written(i), "result")) = {"error"}
         /\ Field(Field(Written(i), "result"), "error") =
              JStr(W("Unknown tool: ")
                     \o (IF NameOf(i) = Absent THEN W("None") ELSE PyStr(NameOf(i))))
         /\ RunsFor(i) = {}
    /\ (Sent(i).j = "dict" /\ Method(i) \notin KnownMethods) => IsError(Written(i))

C8_Witness ==
  \E i, n \in 1..Handled :
    /\ IsToolCall(i) /\ NameOf(i) = S("no_such_tool")
    /\ Field(Field(Written(i), "result"), "error")
         = JStr(W("Unknown tool: ") \o W("no_such_tool"))
    /\ ~Has(Written(i), "error") /\ RunsFor(i) = {}
    /\ Method(n) = S("foo") /\ IsError(Written(n))

\* the outcome of the command run for input line i (TimedOut when none ran)
OutcomeFor(i) ==
  IF RunsFor(i) = {} THEN TimedOut ELSE cmdlog[CHOOSE n \in RunsFor(i) : TRUE].outcome
Undecodable(i) == ~AllSpace(stdin[i]) /\ Sent(i) = Absent

\* C9: an undecodable line is answered by exactly one response, the -32700
\* error with id null, and the loop goes on: it stops only at end-of-stream,
\* and a request object that follows undecodable lines gets the very response
\* it gets from a freshly started server.
C9_ParseErrorContinues ==
  /\ Len(stdout) = OutIndex(Handled)
  /\ pc = "stopped" => Handled = Len(stdin)
  /\ \A i \in 1..Handled :
       /\ Undecodable(i) =>
            Written(i) = ErrorResponse(JNull, -32700, W("Parse error"))
       /\ (Sent(i).j = "dict" /\ \E n \in 1..(i - 1) : Undecodable(n)) =>
            Written(i) = handle_jsonrpc_request(InitServer, Sent(i), OutcomeFor(i)).ret.val

C9_Witness ==
  /\ pc = "stopped" /\ Handled = 3
  /\ Undecodable(1) /\ Undecodable(2)
  /\ ErrorCode(Written(1)) = JNum(-32700) /\ ErrorCode(Written(2)) = JNum(-32700)
  /\ IsToolCall(3) /\ StatusText(Written(3)) = S("boot succeeded")

\* C10: whatever the outcome of its command, a tools/call of a registry tool
\* is answered with a result whose content is a sequence of exactly one block,
\* of type "text".
C10_OneTextBlock ==
  \A i \in 1..Handled :
    (IsToolCall(i) /\ NameOf(i) \in RegistryNames /\ RunsFor(i) # {}) =>
      IsResult(Written(i)) /\ IsOneTextBlock(Content(Written(i)))


\* the table of section 4.2 of the specification: tool name, required fields
SpecTable ==
  [list_devices |-> {},
   boot_device |-> {"device_id"},
   shutdown_device |-> {"device_id"},
   install_app |-> {"device_id", "app_path"},
   launch_app |-> {"device_id", "bundle_id"},
   build_and_run |-> {"project_path", "scheme"},
   get_app_status |-> {"device_id", "bundle_id"}]
\* the tools sequence of a tools/list response, <<>> when it has none
Catalog(r) ==
  LET tools == Field(Field(r, "result"), "tools")
  IN  IF tools.j = "list" THEN tools.v ELSE <<>>
\* the name of a catalog entry and the set of fields it lists as required
EntryName(tool) ==
  LET name == Field(tool, "name")
  IN  IF name.j = "str" /\ Len(name.v) = 1 THEN name.v[1].c ELSE ""
EntryRequired(tool) ==
  LET required == Field(Field(tool, "inputSchema"), "required")
  IN  IF required.j = "list" THEN {f.v[1].c : f \in Range(required.v)} ELSE {"?"}
IsToolsList(i) == Sent(i).j = "dict" /\ Method(i) = S("tools/list")

\* C11: every tools/list request is answered with a catalog of seven
\* entries named list_devices, boot_device, shutdown_device, install_app,
\* launch_app, build_and_run and get_app_status, each listing the required
\* fields of the specification's table; any two tools/list answers in a run
\* carry the same catalog, whatever was handled between them.
C11_CatalogFixed ==
  \A i \in 1..Handled :
    IsToolsList(i) =>
      /\ IsResult(Written(i))
      /\ Len(Catalog(Written(i))) = 7
      /\ {EntryName(tool) : tool \in Range(Catalog(Written(i)))} = DOMAIN SpecTable
      /\ \A tool \in Range(Catalog(Written(i))) :
           EntryRequired(tool) = SpecTable[EntryName(tool)]
      /\ \A n \in 1..Handled :
           IsToolsList(n) => Field(Written(n), "result") = Field(Written(i), "result")

C11_Witness ==
  /\ Handled = 3
  /\ IsToolsList(1) /\ IsToolsList(3)
  /\ IsToolCall(2) /\ ErrorCode(Written(2)) = JNum(-32603) /\ RunsFor(2) # {}
  /\ Len(Catalog(Written(1))) = 7
  /\ Field(Written(3), "result") = Field(Written(1), "result")


\* the fixed phrases of the four device/app tools (ASCII renderings of the
\* source's, as in the handlers above)
SuccessPhrase ==
  [boot_device |-> "boot succeeded", shutdown_device |-> "shutdown succeeded",
   install_app |-> "install succeeded", launch_app |-> "app launch succeeded"]
FailurePrefix ==
  [boot_device |-> "boot failed: ", shutdown_device |-> "shutdown failed: ",
   install_app |-> "install failed: ", launch_app |-> "app launch failed: "]
PhraseTools == {S(t) : t \in DOMAIN SuccessPhrase}
ToolOf(i) == NameOf(i).v[1].c
\* the command outcome reports success: the process was launched and exited 0
ReportsSuccess(o) == o.kind = "exit" /\ o.returncode = 0

\* C12: boot_device, shutdown_device, install_app and launch_app, called
\* with their required arguments, answer under the request's id with one
\* text block: the tool's success phrase when the command outcome reports
\* success, and the tool's failure phrase followed by the command's stderr
\* text when it reports failure.
C12_FixedPhrases ==
  \A i \in 1..Handled :
    (IsToolCall(i) /\ NameOf(i) \in PhraseTools /\ HasRequired(i)) =>
      /\ IsResult(Written(i))
      /\ Field(Written(i), "id") = ExpectedId(i)
      /\ StatusText(Written(i)) =
           (IF ReportsSuccess(OutcomeFor(i))
            THEN S(SuccessPhrase[ToolOf(i)])
            ELSE JStr(W(FailurePrefix[ToolOf(i)]) \o OutcomeFor(i).stderr))


\* C13: requests are handled one at a time.  A line is read only while no
\* request is in flight and every earlier line has its response printed;
\* a command returns only for the request of the line read last, and it is
\* that request's response which is printed next, before any further read.
C13_OneAtATime ==
  [][ /\ (pos' # pos) =>
           /\ pc = "read" /\ request = NoRequest
           /\ pos' = pos + 1
           /\ Len(stdout) = OutIndex(pos - 1)
      /\ (cmdlog' # cmdlog) =>
           /\ pc = "exec" /\ pc' = "read" /\ pos' = pos
           /\ request = Sent(pos - 1)
           /\ Len(cmdlog') = Len(cmdlog) + 1
           /\ cmdlog'[Len(cmdlog')].lineno = pos - 1
           /\ Len(stdout') = Len(stdout) + 1
           /\ Len(stdout') = OutIndex(pos - 1)
      /\ (pc' = "exec") => (pc = "read" /\ request' = Sent(pos) /\ stdout' = stdout)
    ]_vars

C13_Witness ==
  /\ pc = "exec" /\ pos = 3 /\ Len(stdin) = 3
  /\ request = Sent(2) /\ IsToolCall(2)
  /\ ~AllSpace(stdin[1]) /\ ~AllSpace(stdin[3])
  /\ Len(stdout) = 1


\* C14: with a finite input whose every command returns, the loop eventually
\* stops, and it stops only at end-of-stream: every line has then been read
\* and every non-blank line has its response, whatever faults the lines and
\* their commands produced.
C14_StopsAtEndOfStream ==
  /\ <>(pc = "stopped")
  /\ [](pc = "stopped" => /\ pos = Len(stdin) + 1
                          /\ Len(stdout) = OutIndex(Len(stdin))
                          /\ Len(cmdlog) = Cardinality({i \in 1..Len(stdin) : request = NoRequest
                                                          /\ RunsFor(i) # {}}))

C14_Witness ==
  /\ pc = "stopped" /\ Len(stdin) = 2 /\ pos = 3
  /\ Undecodable(1) /\ ErrorCode(Written(1)) = JNum(-32700)
  /\ IsToolCall(2) /\ OutcomeFor(2).kind = "timeout" /\ RunsFor(2) # {}
  /\ ErrorCode(Written(2)) = JNum(-32603)


\* C15: run_command never raises: whatever subprocess.run did, it returns a
\* dict.  Its "success" is true exactly when the process was launched and
\* exited with code 0; after a timeout or a failure to launch the dict has
\* success false and a str under "error", and has no "returncode".
C15_RunCommandOutcome ==
  \A n \in 1..Len(cmdlog) :
    LET o == cmdlog[n].outcome
        result == run_command(cmdlog[n].argv, o)
    IN  /\ result.j = "dict"
        /\ Field(result, "success") = JBool(o.kind = "exit" /\ o.returncode = 0)
        /\ (o.kind # "exit") =>
              /\ Field(result, "success") = JBool(FALSE)
              /\ Field(result, "error").j = "str"
              /\ ~Has(result, "returncode")
        /\ (o.kind = "exit") =>
              /\ Field(result, "returncode") = JNum(o.returncode)
              /\ ~Has(result, "error")
\* three commands have run: one exited 1, one timed out, one was not launched
C15_Witness ==
  /\ \E n \in 1..Len(cmdlog) : cmdlog[n].outcome.kind = "exit" /\ cmdlog[n].outcome.returncode = 1
  /\ \E n \in 1..Len(cmdlog) : cmdlog[n].outcome.kind = "timeout"
  /\ \E n \in 1..Len(cmdlog) : cmdlog[n].outcome.kind = "exception"


\* the requests that reach a tool handler: a tools/call naming a tool of the
\* catalog and carrying every argument the catalog requires of it
RunsATool(i) == IsToolCall(i) /\ NameOf(i) \in RegistryNames /\ HasRequired(i)

NotAnObject(i) == Sent(i) # Absent /\ Sent(i).j # "dict"

\* C17: a line that decodes to a JSON value other than an object (array,
\* number, string, null) makes handle_jsonrpc_request raise before its try
\* block.  The line is answered by exactly one response, the error -32603
\* with id null and no result; no command is run for it, and the loop has
\* not stopped unless the input is exhausted.
C17_NonObjectAnswered ==
  \A i \in 1..Handled :
    NotAnObject(i) =>
      /\ OutIndex(i) = OutIndex(i - 1) + 1
      /\ Len(stdout) >= OutIndex(i)
      /\ IsError(Written(i))
      /\ ErrorCode(Written(i)) = JNum(-32603)
      /\ Field(Written(i), "id") = JNull
      /\ ~Has(Written(i), "result")
      /\ RunsFor(i) = {}
      /\ (pc = "stopped") => (pos = Len(stdin) + 1 /\ Len(stdout) = OutIndex(Len(stdin)))
\* an array line answered with -32603, then a request answered with its result
C17_Witness ==
  /\ Handled = 2 /\ pc = "read"
  /\ NotAnObject(1) /\ Sent(1).j = "list"
  /\ ErrorCode(Written(1)) = JNum(-32603)
  /\ Method(2) = S("initialize") /\ IsResult(Written(2))


\* sub is a substring of s: s is some text, then sub, then some text
Occurs(sub, s) ==
  \E a \in 0..Len(s) : \E b \in a..Len(s) : SubSeq(s, a + 1, b) = sub
\* the bundle_id argument of the request on line i
BundleIdOf(i) == Field(ArgumentsOf(i), "bundle_id")
\* line i is a get_app_status call with a str bundle_id whose command exited
AppStatusCall(i) ==
  /\ RunsATool(i) /\ NameOf(i) = S("get_app_status")
  /\ BundleIdOf(i).j = "str"
  /\ OutcomeFor(i).kind = "exit"

\* C18: get_app_status answers with one text block.  When the launchctl
\* listing exited 0 the text is the running status if the bundle_id occurs
\* as a substring of its stdout and the stopped status if it does not; when
\* it exited non-zero the text is the failure phrase followed by stderr.
C18_AppStatus ==
  \A i \in 1..Handled :
    AppStatusCall(i) =>
      /\ IsResult(Written(i))
      /\ Field(Written(i), "id") = ExpectedId(i)
      /\ StatusText(Written(i)) =
           (IF OutcomeFor(i).returncode # 0
            THEN JStr(W("status check failed: ") \o OutcomeFor(i).stderr)
            ELSE IF Occurs(BundleIdOf(i).v, OutcomeFor(i).stdout)
                 THEN S("running") ELSE S("stopped"))
\* the bundle id found on the first line of a two-line listing, after the
\* pid and status columns
C18_Witness ==
  /\ Handled = 1 /\ pc = "read" /\ AppStatusCall(1)
  /\ BundleIdOf(1) = S("com.a")
  /\ OutcomeFor(1).returncode = 0
  /\ Len(OutcomeFor(1).stdout) > 6
  /\ StatusText(Written(1)) = S("running")


\* C19: the server keeps no state across requests.  Its version and
\* request_id fields are those set at construction; the response to every
\* request object is the one a freshly constructed server gives to that
\* request under the same command outcome; and two equal lines whose
\* commands behaved alike are answered alike, whatever came between them.
C19_NoStateAcrossRequests ==
  /\ server = InitServer
  /\ \A i \in 1..Handled :
        Sent(i).j = "dict" =>
          Written(i) = handle_jsonrpc_request(InitServer, Sent(i), OutcomeFor(i)).ret.val
  /\ \A i \in 1..Handled : \A k \in 1..Handled :
        (stdin[i] = stdin[k] /\ OutcomeFor(i) = OutcomeFor(k)) => Written(i) = Written(k)
\* the same boot_device line answered before and after a different request,
\* its command failing alike both times
C19_Witness ==
  /\ Handled = 3 /\ pc = "read"
  /\ stdin[1] = stdin[3] /\ stdin[2] # stdin[1]
  /\ RunsATool(1) /\ Method(2) = S("initialize")
  /\ OutcomeFor(1) = OutcomeFor(3) /\ OutcomeFor(1).returncode = 1
  /\ IsResult(Written(1)) /\ Written(1) = Written(3)


\* values tried for the device_id of a build_and_run call; Absent leaves the
\* argument out
DeviceIds == {Absent, S("X"), S("booted"), S(""), JNum(5), JNull}
\* the request req with the device_id argument replaced by d
WithDeviceId(req, d) ==
  JObj([req.v EXCEPT !["params"] =
          JObj([@.v EXCEPT !["arguments"] = JObj([@.v EXCEPT !["device_id"] = d])])])
\* the argument lists of the commands run for line i, in order
ArgvsFor(i) ==
  LET n == CHOOSE m \in RunsFor(i) : TRUE
  IN  IF RunsFor(i) = {} THEN <<>> ELSE <<cmdlog[n].argv>>
BuildCall(i) == RunsATool(i) /\ NameOf(i) = S("build_and_run")

\* C20: the device_id argument of build_and_run has no effect.  For every
\* answered build_and_run call, the same request with any other device_id,
\* or with none, runs the same argument list and, under the same command
\* outcome, is answered by the same response; and two answered calls that
\* agree on project_path and scheme ran the same argument list and, their
\* commands behaving alike, got the same result or error.
C20_DeviceIdIgnored ==
  /\ \A i \in 1..Handled :
        BuildCall(i) =>
          \A d \in DeviceIds :
            LET other == handle_jsonrpc_request(InitServer, WithDeviceId(Sent(i), d),
                                                OutcomeFor(i))
            IN  /\ other.cmds = ArgvsFor(i)
                /\ other.ret.ok
                /\ other.ret.val = Written(i)
  /\ \A i \in 1..Handled : \A k \in 1..Handled :
        (/\ BuildCall(i) /\ BuildCall(k)
         /\ Field(ArgumentsOf(i), "project_path") = Field(ArgumentsOf(k), "project_path")
         /\ Field(ArgumentsOf(i), "scheme") = Field(ArgumentsOf(k), "scheme")) =>
          /\ ArgvsFor(i) = ArgvsFor(k)
          /\ (OutcomeFor(i) = OutcomeFor(k)) =>
                /\ Field(Written(i), "result") = Field(Written(k), "result")
                /\ Field(Written(i), "error") = Field(Written(k), "error")
\* a build_and_run call for device X answered after a successful build
C20_Witness ==
  /\ Handled = 1 /\ pc = "read" /\ BuildCall(1)
  /\ Field(ArgumentsOf(1), "device_id") = S("X")
  /\ ReportsSuccess(OutcomeFor(1)) /\ OutcomeFor(1).stdout # <<>>
  /\ Len(ArgvsFor(1)) = 1
  /\ IsResult(Written(1))

=============================================================================
